---- MODULE Spec2Model ----
(***************************************************************************)
(* State machine of checker.py: the persisted configuration, the shared    *)
(* checkStats aggregate, the main thread (menu, startChecker, showSummary) *)
(* and the ThreadPoolExecutor tasks running checkdummy / logResult.        *)
(*                                                                         *)
(* Granularity.  The main thread's menu flows are single steps; its        *)
(* showSummary takes one step for the timestamp and one per result list,   *)
(* since worker threads can still be running beside it.  A task            *)
(* takes one step per access to shared state that another thread can      *)
(* observe: the remote request, the read and the write of each             *)
(* `checkStats[k] += 1` (Python evaluates it as a load, an add and a       *)
(* store, and the three are not synchronized), and the two halves of       *)
(* saveConfig (open-truncate, then dump).  list.append is one step.        *)
(***************************************************************************)
EXTENDS Integers, Sequences, FiniteSets, TLC

\* ---------------------------------------------------------------- bounds
DEFAULT_THREADS == 5

MaxRecords == 2

MaxLen == 2

MaxStamp == 2

\* The highest value of a counter with which the main thread leaves a run
\* whose workers are alive.
MaxCarried == 1

\* Entries a site file holds at most.
MaxSites == 2

\* ------------------------------------------------------------- constants
DefaultApiBase == "https://api.isnotsin.com"

\* Values an operator can type at a prompt (non-empty after strip()).
KeyValues == {"key"}

TokenValues == {"token"}

ChatValues == {"chat"}

Gateways == {"stripe", "stripe_charge", "ppcp", "b3", "b3charge"}

PositiveStatuses == {"APPROVED", "CCN MATCHED", "LIVE", "CHARGED"}

CountedStatuses == PositiveStatuses \cup {"DEAD", "ERROR"}

\* "DECLINED" stands for any status string outside the six the code names.
RemoteStatuses == CountedStatuses \cup {"DECLINED"}

\* How one GET can fail: requests raises Timeout; requests raises another
\* RequestException (ConnectionError, ...); the body is not JSON, so
\* response.json() raises; the body is JSON of another shape than an object
\* of strings, so data.get or code.upper() raises.
Failures == {"Timeout", "ConnectionError", "Malformed", "Unexpected"}

\* What one GET can yield: HTTP 401, a JSON body with a status, a failure.
Responses == RemoteStatuses \cup {"401"} \cup Failures

Categories == {"approved", "charged", "ccn", "live"}

\* --------------------------------------------------------------- strings
Chars == {"4", "|", " "}

RECURSIVE lstrip(_)
lstrip(s) ==
  IF s # <<>> /\ Head(s) = " " THEN lstrip(Tail(s)) ELSE s

RECURSIVE rstrip(_)
rstrip(s) ==
  IF s # <<>> /\ s[Len(s)] = " " THEN rstrip(SubSeq(s, 1, Len(s) - 1)) ELSE s

strip(s) == rstrip(lstrip(s))

HasSeparator(s) == \E k \in 1..Len(s) : s[k] = "|"

Strings(n) == UNION {[1..k -> Chars] : k \in 0..n}

IsPrefix(p, u) == Len(u) >= Len(p) /\ SubSeq(u, 1, Len(p)) = p

\* re.IGNORECASE, for the letters of the scheme.
Lower(c) ==
  CASE c = "H" -> "h" [] c = "T" -> "t" [] c = "P" -> "p" [] c = "S" -> "s"
    [] OTHER -> c

\* re.sub(r'^https?://', '', url, flags=re.IGNORECASE)
dropScheme(u) ==
  LET l == [k \in 1..Len(u) |-> Lower(u[k])] IN
  IF IsPrefix(<<"h", "t", "t", "p", "s", ":", "/", "/">>, l)
  THEN SubSeq(u, 9, Len(u))
  ELSE IF IsPrefix(<<"h", "t", "t", "p", ":", "/", "/">>, l)
  THEN SubSeq(u, 8, Len(u))
  ELSE u

\* u.split(ch)[0]
RECURSIVE before(_, _)
before(u, ch) ==
  IF u = <<>> \/ Head(u) = ch THEN <<>>
  ELSE <<Head(u)>> \o before(Tail(u), ch)

extractDomain(url) == before(before(dropScheme(strip(url)), "/"), "?")

\* The lines loadSites keeps of a site file: stripped, blank ones dropped.
RECURSIVE loadSites(_)
loadSites(lines) ==
  IF lines = <<>> THEN <<>>
  ELSE IF strip(Head(lines)) = <<>> THEN loadSites(Tail(lines))
  ELSE <<strip(Head(lines))>> \o loadSites(Tail(lines))

\* saveSites writes the list back, one line per entry.
saveSites(list) == list

\* list.pop(n) for a list of length len: the 1-based position removed, or
\* 0 when it raises IndexError.  A negative n counts from the end.
PopPosition(len, n) ==
  IF 0 <= n /\ n < len THEN n + 1
  ELSE IF n < 0 /\ 0 - n <= len THEN len + n + 1
  ELSE 0

RemoveAt(list, k) == SubSeq(list, 1, k - 1) \o SubSeq(list, k + 1, Len(list))

Range(f) == {f[k] : k \in DOMAIN f}

\* The lists list(set(l)) can return: each element once, in any order.
Orderings(l) ==
  {o \in UNION {[1..n -> Range(l)] : n \in {Cardinality(Range(l))}} :
     Range(o) = Range(l)}

DigitChars == <<"0", "1", "2", "3", "4", "5", "6", "7", "8", "9">>

IsDigit(c) == \E k \in 1..10 : DigitChars[k] = c

\* int() of one digit.
DigitValue(c) == (CHOOSE k \in 1..10 : DigitChars[k] = c) - 1

\* How many digits (\d) follow from position p on.
RECURSIVE DigitRun(_, _)
DigitRun(s, p) ==
  IF p > Len(s) \/ ~IsDigit(s[p]) THEN 0 ELSE 1 + DigitRun(s, p + 1)

\* How many non-digits (\D) follow from position p on.
RECURSIVE GapRun(_, _)
GapRun(s, p) ==
  IF p > Len(s) \/ IsDigit(s[p]) THEN 0 ELSE 1 + GapRun(s, p + 1)

\* The position after the non-digits at q: a \D* that a \d follows takes
\* the whole run.
AfterGap(s, q) == q + GapRun(s, q)

\* r'(\d{13,19})\D*(\d{1,2})\D*(\d{2,4})\D*(\d{3,4})' group by group,
\* each quantifier greedy: the groups matched from q on, <<>> for none.
CvcAt(s, q) ==
  IF DigitRun(s, q) >= 4 THEN <<SubSeq(s, q, q + 3)>>
  ELSE IF DigitRun(s, q) >= 3 THEN <<SubSeq(s, q, q + 2)>>
  ELSE <<>>

\* (\d{2,4}) with c digits, then fewer, and the rest of the pattern.
RECURSIVE YearAt(_, _, _)
YearAt(s, q, c) ==
  IF c < 2 THEN <<>>
  ELSE IF DigitRun(s, q) >= c /\ CvcAt(s, AfterGap(s, q + c)) # <<>>
  THEN <<SubSeq(s, q, q + c - 1)>> \o CvcAt(s, AfterGap(s, q + c))
  ELSE YearAt(s, q, c - 1)

\* (\d{1,2}) with b digits, then fewer, and the rest of the pattern.
RECURSIVE MonthAt(_, _, _)
MonthAt(s, q, b) ==
  IF b < 1 THEN <<>>
  ELSE IF DigitRun(s, q) >= b /\ YearAt(s, AfterGap(s, q + b), 4) # <<>>
  THEN <<SubSeq(s, q, q + b - 1)>> \o YearAt(s, AfterGap(s, q + b), 4)
  ELSE MonthAt(s, q, b - 1)

\* (\d{13,19}) with a digits, then fewer, and the rest of the pattern.
RECURSIVE NumberAt(_, _, _)
NumberAt(s, p, a) ==
  IF a < 13 THEN <<>>
  ELSE IF DigitRun(s, p) >= a /\ MonthAt(s, AfterGap(s, p + a), 2) # <<>>
  THEN <<SubSeq(s, p, p + a - 1)>> \o MonthAt(s, AfterGap(s, p + a), 2)
  ELSE NumberAt(s, p, a - 1)

\* re.search: the match at the leftmost position that has one.
RECURSIVE SearchFrom(_, _)
SearchFrom(s, p) ==
  IF p > Len(s) THEN <<>>
  ELSE IF NumberAt(s, p, 19) # <<>> THEN NumberAt(s, p, 19)
  ELSE SearchFrom(s, p + 1)

\* The groups of re.search(pattern, line), or <<>> for no match.
Search(s) == SearchFrom(s, 1)

\* str.zfill(2)
zfill2(d) == IF Len(d) < 2 THEN <<"0">> \o d ELSE d

\* int(mm) for one or two digits.
IntOf(d) ==
  IF Len(d) = 1 THEN DigitValue(d[1])
  ELSE 10 * DigitValue(d[1]) + DigitValue(d[2])

\* What extractdummy makes of the groups g of a match.
Record(g) ==
  LET cc == g[1]
      mm == zfill2(g[2])
      yy == IF Len(g[3]) = 4 THEN SubSeq(g[3], 3, 4) ELSE g[3]
      cvc == g[4]
  IN IF Len(cc) >= 13 /\ Len(cc) <= 19 /\ IntOf(mm) >= 1 /\ IntOf(mm) <= 12
     THEN cc \o <<"|">> \o mm \o <<"|">> \o yy \o <<"|">> \o cvc
     ELSE <<>>

\* extractdummy(line): the record cc|mm|yy|cvc, or <<>> for None.
extractdummy(line) ==
  CHOOSE dummy \in {IF match = <<>> THEN <<>> ELSE Record(match) :
                      match \in {Search(line)}} : TRUE

\* extractdummy returns "cc|mm|yy|cvc": digits joined by separators.
ExtractedRecord == <<"4", "|", "4">>

\* ---------------------------------------------------------- configuration
DefaultConfig ==
  [api_key |-> "", api_base |-> DefaultApiBase, bot_token |-> "",
   chat_id |-> "", proxy |-> "", proxy_enabled |-> FALSE]

Configs ==
  [api_key : {""} \cup KeyValues, api_base : {DefaultApiBase},
   bot_token : {""} \cup TokenValues, chat_id : {""} \cup ChatValues,
   proxy : {""}, proxy_enabled : {FALSE}]

\* json.dump that leaves out the members whose value is falsy.
jsonDumpSparse(config) ==
  [f \in {g \in DOMAIN config :
            IF g = "proxy_enabled" THEN config[g] ELSE config[g] # ""} |->
     IF f = "proxy_enabled"
     THEN <<"literal", IF config[f] THEN "true" ELSE "false">>
     ELSE <<"string", config[f]>>]

\* json.dump(config, f, indent=2): one member per key of the dict, a str
\* written as a quoted string, a bool as the literal true or false.
jsonDump(config) ==
  [f \in DOMAIN config |->
     IF f = "proxy_enabled"
     THEN <<"literal", IF config[f] THEN "true" ELSE "false">>
     ELSE <<"string", config[f]>>]

\* json.load(f): the dict of the members, each value by its JSON type.
jsonLoad(text) ==
  [f \in DOMAIN text |->
     IF text[f][1] = "literal" THEN text[f][2] = "true" ELSE text[f][2]]

NoText == [f \in {} |-> <<>>]

\* The settings file: absent, or present with parseable content or not
\* (between open(..., 'w') and the end of json.dump it is not parseable).
NoFile == [exists |-> FALSE, valid |-> FALSE, data |-> NoText]

FileOf(config) == [exists |-> TRUE, valid |-> TRUE, data |-> jsonDump(config)]

TruncatedFile == [exists |-> TRUE, valid |-> FALSE, data |-> NoText]

loadConfig(file) ==
  IF file.exists /\ file.valid THEN jsonLoad(file.data) ELSE DefaultConfig

saveConfig(config) == FileOf(config)

\* ------------------------------------------------------------- checkStats
ZeroStats ==
  [total |-> 0, checked |-> 0, approved |-> 0, ccn |-> 0, live |-> 0,
   charged |-> 0, dead |-> 0, invalid |-> 0,
   approveddummys |-> <<>>, ccndummys |-> <<>>, livedummys |-> <<>>,
   chargeddummys |-> <<>>]

resetStats == ZeroStats

\* CounterOf with the LIVE branch bumping the counter of the branch above.
\* The counters chosen as the log line's letter is: any other status under
\* dead.
CounterOfDefault(status) ==
  CASE status = "APPROVED" -> "approved"
    [] status = "CCN MATCHED" -> "ccn"
    [] status = "LIVE" -> "live"
    [] status = "CHARGED" -> "charged"
    [] status = "ERROR" -> "invalid"
    [] OTHER -> "dead"

CounterOfSlip(status) ==
  CASE status = "APPROVED" -> "approved"
    [] status = "CCN MATCHED" -> "ccn"
    [] status = "LIVE" -> "ccn"
    [] status = "CHARGED" -> "charged"
    [] status = "DEAD" -> "dead"
    [] status = "ERROR" -> "invalid"
    [] OTHER -> "none"

CounterOf(status) ==
  CASE status = "APPROVED" -> "approved"
    [] status = "CCN MATCHED" -> "ccn"
    [] status = "LIVE" -> "live"
    [] status = "CHARGED" -> "charged"
    [] status = "DEAD" -> "dead"
    [] status = "ERROR" -> "invalid"
    [] OTHER -> "none"

ListOf(status) ==
  CASE status = "APPROVED" -> "approveddummys"
    [] status = "CCN MATCHED" -> "ccndummys"
    [] status = "LIVE" -> "livedummys"
    [] status = "CHARGED" -> "chargeddummys"
    [] OTHER -> "none"

CategoryList(category) ==
  CASE category = "approved" -> "approveddummys"
    [] category = "charged" -> "chargeddummys"
    [] category = "ccn" -> "ccndummys"
    [] category = "live" -> "livedummys"

\* sendTelegramNotification posts only with both fields set and a positive
\* status; whether the post succeeds changes nothing (bare except: pass).
Notifies(config, status) ==
  /\ config.bot_token # ""
  /\ config.chat_id # ""
  /\ status \in PositiveStatuses

\* How requests.post(url, json=payload, timeout=5) can end when
\* sendTelegramNotification reaches it: the message is delivered, or the
\* call raises (no route, timeout, a rejected token); "none" when the
\* function returned before the post.
PostResults(cfg, status) ==
  IF Notifies(cfg, status) THEN {"ok", "raised"} ELSE {"none"}

\* The except clauses of checkdummy that can catch what a response raises.
\* response.json() on a body that is not JSON raises
\* requests.exceptions.JSONDecodeError, a RequestException, in requests
\* 2.27 and later, and a plain ValueError before; line 62 installs requests
\* unpinned, so either library is one the program runs with.
Handlers(r) ==
  CASE r = "Timeout" -> {"Timeout"}
    [] r = "ConnectionError" -> {"RequestException"}
    [] r = "Malformed" -> {"RequestException", "Exception"}
    [] r = "Unexpected" -> {"Exception"}
    [] OTHER -> {"none"}

\* The <<status, code>> handed to logResult: by the except clause that
\* caught, or the status of the JSON body.
Classify(r, caught) ==
  CASE caught = "Timeout" -> <<"ERROR", "TIMEOUT">>
    [] caught = "RequestException" -> <<"ERROR", "CONNECTION">>
    [] caught = "Exception" -> <<"ERROR", "EXCEPTION">>
    [] OTHER -> <<r, "REMOTE">>

NoOutcome == <<"-", "-">>

NoRoute == [gateway |-> "", mode |-> "", site |-> <<>>, label |-> <<>>]

NoRequest == [url |-> <<>>, site |-> <<>>, proxy |-> <<>>]

NoLauncher ==
  [pc |-> "off", git |-> FALSE, copy |-> "absent", actions |-> <<>>,
   menus |-> 0, install |-> "", invocation |-> 0]

NoLine == [task |-> 0, kind |-> ""]

NoLoading == [lines |-> <<>>, line |-> <<>>, dummys |-> <<>>]

NoFlow ==
  [gateway |-> "", action |-> "", url |-> <<>>, lines |-> <<>>, idx |-> <<>>,
   text |-> ""]

\* ------------------------------------------------------------------ state
VARIABLES
  main,            \* where the main thread is: "menu", "files" (the FILES
                   \* prompt of startChecker), "dispatch" (the
                   \* as_completed loop), "shutdown" (the executor's
                   \* __exit__ joining its threads), "summary", "ack", "exit"
  configFile,      \* checker_config.json
  sites,           \* sites/<gateway>.txt, one list per gateway
  config,          \* the dict startChecker loaded and every task shares
  checkStats,      \* the module-level aggregate
  dummys,          \* the records submitted to the executor
  pc,              \* per task: "queued", "req", "save", "wchk", "wcnt", "done"
  response,        \* per task: what requests.get yielded ("-": nothing yet)
  outcome,         \* per task: the <<status, code>> passed to logResult
  tmp,             \* per task: the value loaded by the pending `+= 1`
  calls,           \* per task: invocations of checkdummy
  requests,        \* per task: requests.get calls issued
  recorded,        \* per task: invocations of logResult
  notified,        \* per task: posts by sendTelegramNotification
  delivered,       \* per task: posts that reached the Telegram chat
  snap,            \* per task: checkStats when its logResult began
  clean,           \* per task: no other task stored into checkStats since
  interrupts,      \* KeyboardInterrupts delivered during this dispatch
  doneAtInterrupt, \* tasks that had returned when the first one arrived
  attempted,       \* categories the summary on screen called saveToFile for
  savedFiles,      \* result files that summary wrote
  stamp,           \* the timestamp showSummary took (0: none)
  route,           \* the run's gateway, selectedSite and siteLabel, with
                   \* the site mode chosen
  sent,            \* per task: URL and site parameter of its request
  flow,            \* the last configureSites flow that printed a result, the
                   \* message startChecker gave up with (action START), or
                   \* what the key check of configureApiKey printed and the
                   \* choice that followed (action KEY):
                   \* its gateway, action, the URL typed, the lines of the
                   \* file named, the index typed, and the message
  loading,         \* loaddummys at work: the lines of the file still to
                   \* read, the line just read, the records appended
  launcher,        \* app.py: where its main() stands, whether git answers,
                   \* the directory `checkmate`, the commands it has run,
                   \* the menus it has shown, how installGit ended, and
                   \* which invocation this is (0: app.py is not in use)
  console          \* the line written to the terminal last during a run:
                   \* the task whose logResult wrote it, and whether it is
                   \* the log line or the progress line

vars ==
  <<main, configFile, sites, config, checkStats, dummys, pc, response, outcome, tmp,
    calls, requests, recorded, notified, delivered, snap, clean, interrupts,
    doneAtInterrupt, attempted, savedFiles, stamp, route, sent, flow,
    loading, launcher, console>>

mainVars ==
  <<main, interrupts, doneAtInterrupt, attempted, savedFiles, stamp, route,
    flow, loading, launcher>>

taskVars == <<dummys, pc, response, outcome, tmp, calls, requests, recorded, notified, delivered,
              snap, clean, sent, console>>

Tasks == 1..Len(dummys)

Running == {i \in Tasks : pc[i] \notin {"queued", "done"}}

AllDone == \A i \in Tasks : pc[i] = "done"

Dispatching == main \in {"dispatch", "shutdown"}

\* The settings file a previous session may have left behind.
InitialFiles == {NoFile} \cup {FileOf(c) : c \in Configs}

\* The state after the module is loaded, but for what loaddummys works on.
Fresh ==
  /\ main = "menu"
  /\ configFile \in InitialFiles
  /\ sites = [g \in Gateways |-> <<>>]
  /\ config = DefaultConfig
  /\ checkStats = ZeroStats
  /\ dummys = <<>>
  /\ pc = <<>>
  /\ response = <<>>
  /\ outcome = <<>>
  /\ tmp = <<>>
  /\ calls = <<>>
  /\ requests = <<>>
  /\ recorded = <<>>
  /\ notified = <<>>
  /\ delivered = <<>>
  /\ snap = <<>>
  /\ clean = <<>>
  /\ interrupts = 0
  /\ doneAtInterrupt = {}
  /\ attempted = {}
  /\ savedFiles = {}
  /\ stamp = 0
  /\ route = NoRoute
  /\ flow = NoFlow
  /\ sent = <<>>
  /\ console = NoLine

Init ==
  /\ Fresh
  /\ loading = NoLoading
  /\ launcher = NoLauncher

\* ---------------------------------------------------------- the executor
\* executor.submit for every record: the futures wait in the work queue.
Submit(records) ==
  /\ dummys' = records
  /\ pc' = [i \in 1..Len(records) |-> "queued"]
  /\ response' = [i \in 1..Len(records) |-> "-"]
  /\ outcome' = [i \in 1..Len(records) |-> NoOutcome]
  /\ tmp' = [i \in 1..Len(records) |-> 0]
  /\ calls' = [i \in 1..Len(records) |-> 0]
  /\ requests' = [i \in 1..Len(records) |-> 0]
  /\ recorded' = [i \in 1..Len(records) |-> 0]
  /\ notified' = [i \in 1..Len(records) |-> 0]
  /\ delivered' = [i \in 1..Len(records) |-> 0]
  /\ snap' = [i \in 1..Len(records) |-> ZeroStats]
  /\ clean' = [i \in 1..Len(records) |-> FALSE]
  /\ sent' = [i \in 1..Len(records) |-> NoRequest]
  /\ console' = NoLine

\* logResult up to the load of checkStats['checked']: the log line is
\* printed and the pending increment holds the value it read.
LogResultBegin(i, status, code) ==
  /\ outcome' = [outcome EXCEPT ![i] = <<status, code>>]
  /\ recorded' = [recorded EXCEPT ![i] = @ + 1]
  /\ tmp' = [tmp EXCEPT ![i] = checkStats.checked]
  /\ snap' = [snap EXCEPT ![i] = checkStats]
  /\ clean' = [clean EXCEPT ![i] = TRUE]
  /\ pc' = [pc EXCEPT ![i] = "wchk"]
  /\ console' = [task |-> i, kind |-> "log"]

\* A store into checkStats by task i lands between the load and the store
\* of every other task that is inside logResult.
\* printProgress() at the end of logResult: the counters as they stand are
\* put on the terminal's last line.
printProgress(i) == console' = [task |-> i, kind |-> "progress"]

Disturb(i) ==
  /\ clean' = [k \in Tasks |-> IF k # i /\ pc[k] \in {"wchk", "wcnt"}
                               THEN FALSE ELSE clean[k]]
  /\ snap' = [k \in Tasks |-> IF k = i \/ pc[k] \in {"wchk", "wcnt"}
                              THEN ZeroStats ELSE snap[k]]

\* The plain-text line logResult builds: record, status letter, code.
logLineClean(i) == <<dummys[i], outcome[i][1], outcome[i][2]>>

\* Request with `if config.get('proxy'):` alone: a disabled proxy is sent.
RequestProxySet(gateway, site) ==
  [url |-> <<config.api_base, gateway>>, site |-> site,
   proxy |-> IF config.proxy # "" THEN <<config.proxy>> ELSE <<>>]

\* api_url and params of the GET checkdummy issues: params['site'], and
\* params['proxy'] (here a sequence of one value when the key is present,
\* the empty sequence when it is not).
Request(gateway, site) ==
  [url |-> <<config.api_base, gateway>>, site |-> site,
   proxy |-> IF config.proxy_enabled /\ config.proxy # ""
             THEN <<config.proxy>> ELSE <<>>]

\* StartTask with `if not dummy:` alone: a record without '|' is sent.
StartTaskUnsplit(i) ==
  /\ pc[i] = "queued"
  /\ \A j \in Tasks : j < i => pc[j] # "queued"
  /\ Cardinality(Running) < DEFAULT_THREADS
  /\ calls' = [calls EXCEPT ![i] = @ + 1]
  /\ IF strip(dummys[i]) = <<>>
     THEN /\ LogResultBegin(i, "ERROR", "INVALID")
          /\ UNCHANGED <<requests, sent>>
     ELSE /\ requests' = [requests EXCEPT ![i] = @ + 1]
          /\ sent' = [sent EXCEPT ![i] = Request(route.gateway, route.site)]
          /\ pc' = [pc EXCEPT ![i] = "req"]
          /\ UNCHANGED <<outcome, recorded, tmp, snap, clean, console>>
  /\ UNCHANGED <<mainVars, configFile, sites, config, checkStats, dummys,
                 response, notified, delivered>>

\* A worker thread takes the next future off the queue and runs checkdummy
\* up to the request (or, for a malformed record, up to logResult).
StartTask(i) ==
  /\ pc[i] = "queued"
  /\ \A j \in Tasks : j < i => pc[j] # "queued"
  /\ Cardinality(Running) < DEFAULT_THREADS
  /\ calls' = [calls EXCEPT ![i] = @ + 1]
  /\ IF strip(dummys[i]) = <<>> \/ ~HasSeparator(strip(dummys[i]))
     THEN /\ LogResultBegin(i, "ERROR", "INVALID")
          /\ UNCHANGED <<requests, sent>>
     ELSE /\ requests' = [requests EXCEPT ![i] = @ + 1]
          /\ sent' = [sent EXCEPT ![i] = Request(route.gateway, route.site)]
          /\ pc' = [pc EXCEPT ![i] = "req"]
          /\ UNCHANGED <<outcome, recorded, tmp, snap, clean, console>>
  /\ UNCHANGED <<mainVars, configFile, sites, config, checkStats, dummys,
                 response, notified, delivered>>

\* Respond without the status_code == 401 test: the body is parsed and logged.
RespondUnchecked(i, r, caught) ==
  /\ pc[i] = "req"
  /\ caught \in Handlers(r)
  /\ response' = [response EXCEPT ![i] = r]
  /\ LogResultBegin(i, IF r = "401" THEN "ERROR" ELSE Classify(r, caught)[1],
                        Classify(r, caught)[2])
  /\ UNCHANGED <<mainVars, configFile, sites, config, checkStats, dummys,
                 calls, requests, notified, delivered,
                 sent>>

\* Respond with a retry: a timed-out request is issued once more.
RespondRetry(i, r, caught) ==
  /\ pc[i] = "req"
  /\ caught \in Handlers(r)
  /\ IF r = "Timeout" /\ requests[i] < 2
     THEN /\ requests' = [requests EXCEPT ![i] = @ + 1]
          /\ UNCHANGED <<response, outcome, recorded, tmp, snap, clean, pc,
                         config, configFile, console>>
     ELSE /\ response' = [response EXCEPT ![i] = r]
          /\ UNCHANGED requests
          /\ IF r = "401"
             THEN /\ IF configFile.exists
                     THEN /\ config' = [config EXCEPT !.api_key = ""]
                          /\ configFile' = TruncatedFile
                          /\ pc' = [pc EXCEPT ![i] = "save"]
                     ELSE /\ pc' = [pc EXCEPT ![i] = "done"]
                          /\ UNCHANGED <<config, configFile>>
                  /\ UNCHANGED <<outcome, recorded, tmp, snap, clean, console>>
             ELSE /\ LogResultBegin(i, Classify(r, caught)[1],
                                    Classify(r, caught)[2])
                  /\ UNCHANGED <<config, configFile>>
  /\ UNCHANGED <<mainVars, sites, checkStats, dummys, calls, notified, delivered,
                 sent>>

\* requests.get returns or raises; caught is the except clause taken.
Respond(i, r, caught) ==
  /\ pc[i] = "req"
  /\ caught \in Handlers(r)
  /\ response' = [response EXCEPT ![i] = r]
  /\ IF r = "401"
     THEN /\ IF configFile.exists
             THEN /\ config' = [config EXCEPT !.api_key = ""]
                  /\ configFile' = TruncatedFile
                  /\ pc' = [pc EXCEPT ![i] = "save"]
             ELSE /\ pc' = [pc EXCEPT ![i] = "done"]
                  /\ UNCHANGED <<config, configFile>>
          /\ UNCHANGED <<outcome, recorded, tmp, snap, clean, console>>
     ELSE /\ LogResultBegin(i, Classify(r, caught)[1], Classify(r, caught)[2])
          /\ UNCHANGED <<config, configFile>>
  /\ UNCHANGED <<mainVars, sites, checkStats, dummys, calls, requests,
                 notified, delivered,
                 sent>>

\* SaveDump writing a fresh default configuration instead of the run's.
SaveDumpDefaults(i) ==
  /\ pc[i] = "save"
  /\ configFile' = saveConfig(DefaultConfig)
  /\ pc' = [pc EXCEPT ![i] = "done"]
  /\ UNCHANGED <<mainVars, sites, config, checkStats, dummys, response,
                 outcome, tmp, calls, requests, recorded, notified, delivered, snap,
                 clean,
                 sent, console>>

\* json.dump(config, f) and the close of the file opened by saveConfig.
SaveDump(i) ==
  /\ pc[i] = "save"
  /\ configFile' = saveConfig(config)
  /\ pc' = [pc EXCEPT ![i] = "done"]
  /\ UNCHANGED <<mainVars, sites, config, checkStats, dummys, response,
                 outcome, tmp, calls, requests, recorded, notified, delivered, snap,
                 clean,
                 sent, console>>

\* The store of checkStats['checked'] += 1, then the load of the status
\* counter; a status with no counter goes on to printProgress and returns.
WriteChecked(i) ==
  /\ pc[i] = "wchk"
  /\ checkStats' = [checkStats EXCEPT !.checked = tmp[i] + 1]
  /\ IF CounterOf(outcome[i][1]) # "none"
     THEN /\ tmp' = [tmp EXCEPT ![i] = checkStats[CounterOf(outcome[i][1])]]
          /\ pc' = [pc EXCEPT ![i] = "wcnt"]
          /\ clean' = [k \in Tasks |-> IF k # i /\ pc[k] \in {"wchk", "wcnt"}
                                       THEN FALSE ELSE clean[k]]
          /\ snap' = [k \in Tasks |-> IF k # i /\ pc[k] \in {"wchk", "wcnt"}
                                      THEN ZeroStats ELSE snap[k]]
          /\ UNCHANGED console
     ELSE /\ tmp' = [tmp EXCEPT ![i] = 0]
          /\ pc' = [pc EXCEPT ![i] = "done"]
          /\ Disturb(i)
          /\ printProgress(i)
  /\ UNCHANGED <<mainVars, configFile, sites, config, dummys, response,
                 outcome, calls, requests, recorded, notified, delivered,
                 sent>>

\* WriteCounter without the try/except of sendTelegramNotification: a post
\* that raises is caught by checkdummy, which calls logResult once more.
WriteCounterRaising(i) ==
  /\ pc[i] = "wcnt"
  /\ checkStats' =
       IF outcome[i][1] \in PositiveStatuses
       THEN [checkStats EXCEPT
               ![CounterOf(outcome[i][1])] = tmp[i] + 1,
               ![ListOf(outcome[i][1])] = Append(@, logLineClean(i))]
       ELSE [checkStats EXCEPT ![CounterOf(outcome[i][1])] = tmp[i] + 1]
  /\ notified' = [notified EXCEPT
                    ![i] = IF Notifies(config, outcome[i][1]) THEN @ + 1 ELSE @]
  /\ \E post \in PostResults(config, outcome[i][1]) :
       IF post = "raised"
       THEN /\ LogResultBegin(i, "ERROR", "CONNECTION")
            /\ UNCHANGED delivered
       ELSE /\ delivered' =
                 [delivered EXCEPT ![i] = IF post = "ok" THEN @ + 1 ELSE @]
            /\ tmp' = [tmp EXCEPT ![i] = 0]
            /\ pc' = [pc EXCEPT ![i] = "done"]
            /\ Disturb(i)
            /\ printProgress(i)
            /\ UNCHANGED <<outcome, recorded>>
  /\ UNCHANGED <<mainVars, configFile, sites, config, dummys, response,
                 calls, requests, sent>>

\* The store of the status counter, the append to the status list, the
\* notification, printProgress, and the return of checkdummy.
WriteCounter(i) ==
  /\ pc[i] = "wcnt"
  /\ checkStats' =
       IF outcome[i][1] \in PositiveStatuses
       THEN [checkStats EXCEPT
               ![CounterOf(outcome[i][1])] = tmp[i] + 1,
               ![ListOf(outcome[i][1])] = Append(@, logLineClean(i))]
       ELSE [checkStats EXCEPT ![CounterOf(outcome[i][1])] = tmp[i] + 1]
  /\ notified' = [notified EXCEPT
                    ![i] = IF Notifies(config, outcome[i][1]) THEN @ + 1 ELSE @]
  /\ \E post \in PostResults(config, outcome[i][1]) :
       delivered' = [delivered EXCEPT ![i] = IF post = "ok" THEN @ + 1 ELSE @]
  /\ tmp' = [tmp EXCEPT ![i] = 0]
  /\ pc' = [pc EXCEPT ![i] = "done"]
  /\ Disturb(i)
  /\ printProgress(i)
  /\ UNCHANGED <<mainVars, configFile, sites, config, dummys, response,
                 outcome, calls, requests, recorded,
                 sent>>

\* ------------------------------------------------------- the main thread
\* base_gateway_map.get(gateway, gateway.upper()) of selectSiteMode with a
\* table that lacks the two charge gateways.
BuiltinBaseShort(gateway) ==
  CASE gateway = "stripe" -> "STRIPE"
    [] gateway = "ppcp" -> "PPCP"
    [] gateway = "b3" -> "B3"
    [] gateway = "stripe_charge" -> "STRIPE_CHARGE"
    [] gateway = "b3charge" -> "B3CHARGE"
    [] OTHER -> gateway

\* base_gateway_map.get(gateway, gateway.upper()) of selectSiteMode.
BuiltinBase(gateway) ==
  CASE gateway \in {"stripe", "stripe_charge"} -> "STRIPE"
    [] gateway = "ppcp" -> "PPCP"
    [] gateway \in {"b3", "b3charge"} -> "B3"
    [] OTHER -> gateway

\* f"SIN-{builtin_base}"
builtinKey(gateway) == <<"SIN-", BuiltinBase(gateway)>>

\* sites.index(site) + 1
IndexOf(list, site) ==
  CHOOSE k \in 1..Len(list) :
    list[k] = site /\ \A j \in 1..(k - 1) : list[j] # site

\* loadSites(gateway); only the five gateways have a file.
StoredSites(gateway) ==
  IF gateway \in Gateways THEN loadSites(sites[gateway]) ELSE <<>>

\* selectSiteMode without the test for stored sites: the built-in key
\* stands in when the custom list is empty.
selectSiteModeLax(gateway, choice, pick) ==
  LET list == StoredSites(gateway) IN
  IF choice = "1" \/ (choice = "2" /\ list = <<>>)
  THEN [site |-> builtinKey(gateway), label |-> builtinKey(gateway)]
  ELSE IF choice = "2"
  THEN [site |-> list[pick], label |-> <<"SITE ", IndexOf(list, list[pick])>>]
  ELSE [site |-> <<>>, label |-> <<>>]

\* selectSiteMode: choice "1" gives the built-in marker, "2" one of the
\* stored sites (pick is what random.choice draws); anything else, or "2"
\* with nothing stored, gives (None, None).
selectSiteMode(gateway, choice, pick) ==
  LET list == StoredSites(gateway) IN
  IF choice = "1"
  THEN [site |-> builtinKey(gateway), label |-> builtinKey(gateway)]
  ELSE IF choice = "2" /\ list # <<>>
  THEN [site |-> list[pick], label |-> <<"SITE ", IndexOf(list, list[pick])>>]
  ELSE [site |-> <<>>, label |-> <<>>]

\* startChecker from its first line to the end of the submit loop.  The
\* operator's answers are gateway (a menu digit, or anything else), mode
\* ("1" built-in, "2" custom, or anything else), whether the FILES line is
\* empty, and count, the number of records loaddummys extracts.
startChecker(gateway, mode, pick, filesInput, count) ==
  /\ main = "menu"
  /\ pick \in 1..Len(StoredSites(gateway)) \/ pick = 1
  /\ LET Aborts(text) ==
           /\ flow' = [NoFlow EXCEPT !.action = "START", !.text = text]
           /\ UNCHANGED <<main, interrupts, doneAtInterrupt, attempted,
                          savedFiles, stamp, route, loading, launcher,
                          taskVars, configFile, sites, config>>
     IN
     IF loadConfig(configFile).api_key = ""
     THEN Aborts("NO API KEY SET") /\ UNCHANGED checkStats
     ELSE IF gateway \notin Gateways
     THEN Aborts("INVALID GATEWAY") /\ UNCHANGED checkStats
     ELSE IF selectSiteMode(gateway, mode, pick).site = <<>>
     THEN Aborts("INVALID SITE SELECTION") /\ UNCHANGED checkStats
     ELSE IF filesInput = ""
     THEN Aborts("NO FILES ENTERED") /\ checkStats' = resetStats
     ELSE IF count = 0
     THEN Aborts("NO dummyS LOADED") /\ checkStats' = resetStats
     ELSE /\ checkStats' = [resetStats EXCEPT !.total = count]
          /\ config' = loadConfig(configFile)
          /\ route' = [gateway |-> gateway, mode |-> mode,
                       site |-> selectSiteMode(gateway, mode, pick).site,
                       label |-> selectSiteMode(gateway, mode, pick).label]
          /\ Submit([i \in 1..count |-> ExtractedRecord])
          /\ main' = "dispatch"
          /\ interrupts' = 0
          /\ doneAtInterrupt' = {}
          /\ flow' = NoFlow
          /\ UNCHANGED <<configFile, sites, attempted, savedFiles, stamp,
                         loading, launcher>>

\* KeyboardInterrupt in the main thread.  The first one leaves the
\* as_completed loop and enters ThreadPoolExecutor.__exit__, which is
\* shutdown(wait=True): queued futures are not cancelled and every worker
\* thread is joined.  One that arrives during that join leaves __exit__
\* and reaches the except clause of startChecker with the workers running.
Interrupt ==
  \/ /\ main = "dispatch"
     /\ main' = "shutdown"
     /\ interrupts' = 1
     /\ doneAtInterrupt' = {i \in Tasks : pc[i] = "done"}
     /\ UNCHANGED <<taskVars, configFile, sites, config, checkStats,
                     attempted, savedFiles, stamp,
                 route, flow,
                 loading, launcher>>
  \/ /\ main = "shutdown"
     /\ main' = "summary"
     /\ interrupts' = 2
     /\ UNCHANGED <<taskVars, configFile, sites, config, checkStats,
                     attempted, savedFiles, stamp, doneAtInterrupt,
                 route, flow,
                 loading, launcher>>

\* Join leaving the as_completed loop at the first completed future.
JoinFirst ==
  /\ Dispatching
  /\ \E i \in Tasks : pc[i] = "done"
  /\ main' = "summary"
  /\ UNCHANGED <<taskVars, configFile, sites, config, checkStats, interrupts,
                 doneAtInterrupt, attempted, savedFiles, stamp,
                 route, flow,
                 loading, launcher>>

\* Every future has completed: as_completed is exhausted, or the join of
\* shutdown(wait=True) returns; control reaches showSummary.
Join ==
  /\ Dispatching
  /\ AllDone
  /\ main' = "summary"
  /\ UNCHANGED <<taskVars, configFile, sites, config, checkStats, interrupts,
                 doneAtInterrupt, attempted, savedFiles, stamp,
                 route, flow,
                 loading, launcher>>

\* The order in which showSummary goes through the result lists, and the
\* main thread's position before each of them.
SaveOrder == <<"approved", "charged", "ccn", "live">>

SavePoint == <<"save1", "save2", "save3", "save4">>

Summarising == main \in {"summary", "save1", "save2", "save3", "save4", "ack"}

\* showSummary up to getFileTimestamp: the totals are printed and one
\* timestamp is taken for the files of this run.
showSummary(timestamp) ==
  /\ main = "summary"
  /\ stamp' = timestamp
  /\ main' = SavePoint[1]
  /\ UNCHANGED <<taskVars, configFile, sites, config, checkStats, interrupts,
                 doneAtInterrupt, attempted, savedFiles,
                 route, flow,
                 loading, launcher>>

\* saveToFile without the emptiness tests: the file is opened regardless.
saveToFileAlways(k, ok) ==
  /\ main = SavePoint[k]
  /\ attempted' = attempted \cup {SaveOrder[k]}
  /\ savedFiles' =
       IF ok
       THEN savedFiles \cup {[status |-> SaveOrder[k], timestamp |-> stamp]}
       ELSE savedFiles
  /\ main' = IF k < Len(SavePoint) THEN SavePoint[k + 1] ELSE "ack"
  /\ stamp' = IF k < Len(SavePoint) THEN stamp ELSE 0
  /\ UNCHANGED <<taskVars, configFile, sites, config, checkStats, interrupts,
                 doneAtInterrupt,
                 route, flow,
                 loading, launcher>>

\* The k-th `if checkStats[list]: saveToFile(list, status, timestamp)` of
\* showSummary: nothing for an empty list; otherwise the file named by
\* status and timestamp is written, unless the open or a write raises
\* (ok = FALSE), which is reported and leaves no file.
saveToFile(k, ok) ==
  /\ main = SavePoint[k]
  /\ IF checkStats[CategoryList(SaveOrder[k])] # <<>>
     THEN /\ attempted' = attempted \cup {SaveOrder[k]}
          /\ savedFiles' =
               IF ok
               THEN savedFiles \cup
                      {[status |-> SaveOrder[k], timestamp |-> stamp]}
               ELSE savedFiles
     ELSE /\ ok
          /\ UNCHANGED <<attempted, savedFiles>>
  /\ main' = IF k < Len(SavePoint) THEN SavePoint[k + 1] ELSE "ack"
  /\ stamp' = IF k < Len(SavePoint) THEN stamp ELSE 0
  /\ UNCHANGED <<taskVars, configFile, sites, config, checkStats, interrupts,
                 doneAtInterrupt,
                 route, flow,
                 loading, launcher>>

\* input("PRESS ENTER TO CONTINUE...") returns; back in main's loop.  The
\* executor, its futures and the run's dict are garbage from here on.
\* Scope: the operator's next input is taken up once the pool has drained.
Acknowledge ==
  /\ main = "ack"
  /\ AllDone
  /\ main' = "menu"
  /\ Submit(<<>>)
  /\ config' = DefaultConfig
  /\ interrupts' = 0
  /\ doneAtInterrupt' = {}
  /\ attempted' = {}
  /\ savedFiles' = {}
  /\ route' = NoRoute
  /\ UNCHANGED <<stamp, flow,
                 loading, launcher>>
  /\ UNCHANGED <<configFile, sites, checkStats>>

\* The same return while worker threads of the run are alive, which takes a
\* second interrupt: they go on with the queue, the run's dict and the
\* module's checkStats while the main thread is back in its loop.
AcknowledgeEarly ==
  /\ main = "ack"
  /\ ~AllDone
  /\ \A f \in {"checked", "approved", "ccn", "live", "charged", "dead",
               "invalid"} : checkStats[f] <= MaxCarried
  /\ main' = "menu"
  /\ interrupts' = 0
  /\ doneAtInterrupt' = {}
  /\ attempted' = {}
  /\ savedFiles' = {}
  /\ UNCHANGED <<stamp, route, flow, loading, launcher, taskVars, configFile,
                 sites, config, checkStats>>

\* startChecker in two steps, for the runs that follow one whose workers are
\* still alive.  First up to the FILES prompt: the three tests, then
\* resetStats; the answers wait in flow.
startCheckerReset(gateway, mode, pick) ==
  /\ main = "menu"
  /\ pick \in 1..Len(StoredSites(gateway)) \/ pick = 1
  /\ LET Aborts(text) ==
           /\ flow' = [NoFlow EXCEPT !.action = "START", !.text = text]
           /\ UNCHANGED <<main, checkStats>>
     IN
     IF loadConfig(configFile).api_key = ""
     THEN Aborts("NO API KEY SET")
     ELSE IF gateway \notin Gateways
     THEN Aborts("INVALID GATEWAY")
     ELSE IF selectSiteMode(gateway, mode, pick).site = <<>>
     THEN Aborts("INVALID SITE SELECTION")
     ELSE /\ checkStats' = resetStats
          /\ main' = "files"
          /\ flow' = [NoFlow EXCEPT !.action = "START", !.gateway = gateway,
                                    !.text = mode, !.idx = <<pick>>]
  /\ UNCHANGED <<interrupts, doneAtInterrupt, attempted, savedFiles, stamp,
                 route, loading, launcher, taskVars, configFile, sites,
                 config>>

\* Then from the FILES prompt to the end of the submit loop; only total is
\* stored into checkStats here.  Scope: the records are submitted once the
\* workers of the earlier run have returned.
startCheckerFiles(filesInput, count) ==
  /\ main = "files"
  /\ IF filesInput = "" \/ count = 0
     THEN /\ main' = "menu"
          /\ flow' = [NoFlow EXCEPT
                        !.action = "START",
                        !.text = IF filesInput = "" THEN "NO FILES ENTERED"
                                 ELSE "NO dummyS LOADED"]
          /\ UNCHANGED <<interrupts, doneAtInterrupt, route, taskVars, config,
                         checkStats>>
     ELSE /\ AllDone
          /\ checkStats' = [checkStats EXCEPT !.total = count]
          /\ config' = loadConfig(configFile)
          /\ route' =
               [gateway |-> flow.gateway, mode |-> flow.text,
                site |-> selectSiteMode(flow.gateway, flow.text,
                                        flow.idx[1]).site,
                label |-> selectSiteMode(flow.gateway, flow.text,
                                         flow.idx[1]).label]
          /\ Submit([i \in 1..count |-> ExtractedRecord])
          /\ main' = "dispatch"
          /\ interrupts' = 0
          /\ doneAtInterrupt' = {}
          /\ flow' = NoFlow
  /\ UNCHANGED <<configFile, sites, attempted, savedFiles, stamp, loading,
                 launcher>>

\* configureApiKey: with a key set, the key check (check is the verdict of
\* the remote, or "failed" when the request or its parsing raises), then
\* choice "1" (set key, ignored when empty), "2" (remove) or anything else.
\* The key check taking a failed request for a refusal.
ApiKeyAfterCheckStrict(cfg, check) ==
  IF cfg.api_key # "" /\ check \in {"expired", "invalid", "failed"}
  THEN [cfg EXCEPT !.api_key = ""]
  ELSE cfg

\* What the key check prints ("": no key set, no check).
ApiKeyMessage(cfg, check) ==
  IF cfg.api_key = "" THEN ""
  ELSE CASE check = "valid" -> "KEY VALID"
         [] check = "expired" -> "KEY EXPIRED"
         [] check = "invalid" -> "KEY INVALID"
         [] OTHER -> "CANNOT CHECK KEY"

ApiKeyAfterCheck(cfg, check) ==
  IF cfg.api_key # "" /\ check \in {"expired", "invalid"}
  THEN [cfg EXCEPT !.api_key = ""]
  ELSE cfg

configureApiKey(check, choice, key) ==
  /\ main = "menu"
  /\ LET cfg == loadConfig(configFile)
         checked == ApiKeyAfterCheck(cfg, check)
         afterCheck == IF checked # cfg THEN saveConfig(checked) ELSE configFile
     IN configFile' =
          IF choice = "1" /\ key # ""
          THEN saveConfig([checked EXCEPT !.api_key = key])
          ELSE IF choice = "2"
          THEN saveConfig([checked EXCEPT !.api_key = ""])
          ELSE afterCheck
  /\ flow' = [NoFlow EXCEPT
                !.action = "KEY",
                !.idx = IF choice = "1" THEN <<1>>
                        ELSE IF choice = "2" THEN <<2>> ELSE <<3>>,
                !.text = ApiKeyMessage(loadConfig(configFile), check)]
  /\ UNCHANGED <<main, interrupts, doneAtInterrupt, attempted, savedFiles,
                 stamp, route, loading, launcher, taskVars, sites, config,
                 checkStats>>

\* configureForwarder: "1" set bot token, "2" set chat id (both ignored
\* when empty), "3" remove both, anything else back.
configureForwarder(choice, value) ==
  /\ main = "menu"
  /\ LET cfg == loadConfig(configFile)
     IN configFile' =
          IF choice = "1" /\ value # ""
          THEN saveConfig([cfg EXCEPT !.bot_token = value])
          ELSE IF choice = "2" /\ value # ""
          THEN saveConfig([cfg EXCEPT !.chat_id = value])
          ELSE IF choice = "3"
          THEN saveConfig([cfg EXCEPT !.bot_token = "", !.chat_id = ""])
          ELSE configFile
  /\ UNCHANGED <<mainVars, taskVars, sites, config, checkStats>>

\* Choice 5 of main's loop, configureProxy: choice is the menu digit and
\* proxy the stripped answer to ENTER PROXY.  The line it prints is kept in
\* flow.text.
configureProxy(choice, proxy) ==
  /\ main = "menu"
  /\ LET cfg == loadConfig(configFile)
         toggled == [cfg EXCEPT !.proxy_enabled = ~cfg.proxy_enabled]
     IN /\ configFile' =
             IF choice = "1"
             THEN IF proxy # ""
                  THEN saveConfig([cfg EXCEPT !.proxy = proxy,
                                              !.proxy_enabled = TRUE])
                  ELSE configFile
             ELSE IF choice = "2"
             THEN IF cfg.proxy # "" THEN saveConfig(toggled) ELSE configFile
             ELSE IF choice = "3"
             THEN saveConfig([cfg EXCEPT !.proxy = "",
                                         !.proxy_enabled = FALSE])
             ELSE configFile
        /\ flow' =
             [NoFlow EXCEPT
                !.action = "PROXY",
                !.idx = IF choice = "1" THEN <<1>>
                        ELSE IF choice = "2" THEN <<2>>
                        ELSE IF choice = "3" THEN <<3>> ELSE <<4>>,
                !.text = IF choice = "1"
                         THEN IF proxy # "" THEN "PROXY SET AND ENABLED"
                              ELSE ""
                         ELSE IF choice = "2"
                         THEN IF cfg.proxy = "" THEN "NO PROXY SET"
                              ELSE IF toggled.proxy_enabled
                              THEN "PROXY ENABLED" ELSE "PROXY DISABLED"
                         ELSE IF choice = "3" THEN "PROXY REMOVED" ELSE ""]
  /\ UNCHANGED <<main, interrupts, doneAtInterrupt, attempted, savedFiles,
                 stamp, route, loading, launcher, taskVars, sites, config,
                 checkStats>>

\* Choice 8 of main's loop.
GatewayMap ==
  [c \in {"1", "2", "3", "4", "5"} |->
     CASE c = "1" -> "stripe" [] c = "2" -> "stripe_charge" [] c = "3" -> "ppcp"
       [] c = "4" -> "b3" [] c = "5" -> "b3charge"]

\* configureSites: choice picks the gateway; action "1" adds the domain of
\* the URL typed (input.text), "2" imports the lines of a file (input.found,
\* input.lines) and saves list(set(...)) in the order it comes out (order),
\* "3" removes the entry numbered input.idx (<<>>: not a number).
configureSites(choice, action, input, order) ==
  /\ main = "menu"
  /\ IF choice \notin DOMAIN GatewayMap
     THEN UNCHANGED <<sites, flow>>
     ELSE LET gateway == GatewayMap[choice]
              list == loadSites(sites[gateway])
              new == loadSites(input.lines)
              merged == list \o [k \in 1..Len(new) |-> extractDomain(new[k])]
              at == IF input.idx = <<>> THEN 0
                    ELSE PopPosition(Len(list), input.idx[1] - 1)
              Shows(text) ==
                flow' = [gateway |-> gateway, action |-> action,
                         url |-> input.text, lines |-> input.lines,
                         idx |-> input.idx, text |-> text]
          IN
          CASE action = "1" /\ strip(input.text) # <<>> ->
                 /\ Len(list) < MaxSites
                 /\ sites' = [sites EXCEPT ![gateway] =
                      saveSites(Append(list, extractDomain(strip(input.text))))]
                 /\ Shows("SITE ADDED")
            [] action = "2" /\ input.found ->
                 /\ order \in Orderings(merged)
                 /\ Len(order) <= MaxSites
                 /\ sites' = [sites EXCEPT ![gateway] = saveSites(order)]
                 /\ Shows("ADDED SITES")
            [] action = "2" /\ ~input.found ->
                 /\ Shows("FILE NOT FOUND")
                 /\ UNCHANGED sites
            [] action = "3" /\ list = <<>> ->
                 /\ Shows("NO SITES TO REMOVE")
                 /\ UNCHANGED sites
            [] action = "3" /\ list # <<>> /\ at # 0 ->
                 /\ sites' = [sites EXCEPT ![gateway] = saveSites(RemoveAt(list, at))]
                 /\ Shows("SITE REMOVED")
            [] action = "3" /\ list # <<>> /\ at = 0 ->
                 /\ Shows("INVALID INDEX")
                 /\ UNCHANGED sites
            [] OTHER -> UNCHANGED <<sites, flow>>
  /\ UNCHANGED <<main, interrupts, doneAtInterrupt, attempted, savedFiles,
                 stamp, route, loading, taskVars, configFile, config,
                 checkStats, launcher>>

Exit ==
  /\ main = "menu"
  /\ main' = "exit"
  /\ UNCHANGED <<taskVars, configFile, sites, config, checkStats, interrupts,
                 doneAtInterrupt, attempted, savedFiles, stamp,
                 route, flow,
                 loading, launcher>>

\* ---------------------------------------------------------- specification
\* The gateway answers tried in the specifications that are not about
\* routing: one menu entry, and an answer that is none.
RunGateways == {"ppcp", "other"}

StartCheckerStep ==
  \E gateway \in RunGateways, mode \in {"1", "2", "other"},
     pick \in 1..MaxSites, filesInput \in {"", "cards.txt"},
     count \in 0..MaxRecords :
    startChecker(gateway, mode, pick, filesInput, count)

SummaryStep == \E timestamp \in 1..MaxStamp : showSummary(timestamp)

SaveStep == \E k \in 1..Len(SavePoint), ok \in BOOLEAN : saveToFile(k, ok)

ApiKeyStep ==
  \E check \in {"valid", "expired", "invalid", "failed"},
     choice \in {"1", "2", "3"}, key \in {""} \cup KeyValues :
    configureApiKey(check, choice, key)

ForwarderStep ==
  \E choice \in {"1", "2", "3", "4"} :
    \/ \E value \in {""} \cup TokenValues : choice = "1" /\ configureForwarder(choice, value)
    \/ \E value \in {""} \cup ChatValues : choice # "1" /\ configureForwarder(choice, value)

Next ==
  \/ StartCheckerStep
  \/ \E i \in Tasks : StartTask(i)
  \/ \E i \in Tasks, r \in Responses : \E caught \in Handlers(r) :
       Respond(i, r, caught)
  \/ \E i \in Tasks : SaveDump(i)
  \/ \E i \in Tasks : WriteChecked(i)
  \/ \E i \in Tasks : WriteCounter(i)
  \/ Interrupt
  \/ Join
  \/ SummaryStep
  \/ SaveStep
  \/ Acknowledge
  \/ ApiKeyStep
  \/ ForwarderStep
  \/ Exit

Spec == Init /\ [][Next]_vars

\* The stores (configuration file, site files) next to the runs.
SiteTexts ==
  {<<>>, <<" ", "a", " ">>, <<"H", "t", "t", "p", ":", "/", "/", "b", "/", "x">>}

SiteFiles == {<<<<"a", "?", "q">>, <<" ">>, <<"b">>>>, <<<<"b">>>>}

NoInput == [text |-> <<>>, found |-> FALSE, lines |-> <<>>, idx |-> <<>>]

SiteOrders == UNION {[1..n -> {<<"a">>, <<"b">>}] : n \in 0..MaxSites}

SitesStep ==
  \E choice \in {"1", "6"} :
    \/ \E text \in SiteTexts :
         configureSites(choice, "1", [NoInput EXCEPT !.text = text], <<>>)
    \/ \E lines \in SiteFiles, found \in BOOLEAN, order \in SiteOrders :
         configureSites(choice, "2",
                        [NoInput EXCEPT !.found = found, !.lines = lines], order)
    \/ \E idx \in {<<>>} \cup {<<n>> : n \in 0..(MaxSites + 1)} :
         configureSites(choice, "3", [NoInput EXCEPT !.idx = idx], <<>>)
    \/ configureSites(choice, "4", NoInput, <<>>)

StoreResponses == {"401", "DEAD"}

NextStore ==
  \/ StartCheckerStep
  \/ \E i \in Tasks : StartTask(i)
  \/ \E i \in Tasks, r \in StoreResponses : \E caught \in Handlers(r) :
       Respond(i, r, caught)
  \/ \E i \in Tasks : SaveDump(i)
  \/ \E i \in Tasks : WriteChecked(i)
  \/ \E i \in Tasks : WriteCounter(i)
  \/ Interrupt
  \/ Join
  \/ SummaryStep
  \/ SaveStep
  \/ Acknowledge
  \/ SitesStep
  \/ ApiKeyStep
  \/ ForwarderStep
  \/ Exit

SpecStore == Init /\ [][NextStore]_vars

\* Runs one after another, the return to the menu not waiting for the pool.
RunsResponses == {"DEAD"}

ResetStep ==
  \E gateway \in RunGateways, mode \in {"1", "2"} :
    startCheckerReset(gateway, mode, 1)

FilesStep ==
  \E filesInput \in {"", "cards.txt"}, count \in 0..MaxRecords :
    startCheckerFiles(filesInput, count)

NextRuns ==
  \/ ResetStep
  \/ FilesStep
  \/ \E i \in Tasks : StartTask(i)
  \/ \E i \in Tasks, r \in RunsResponses : \E caught \in Handlers(r) :
       Respond(i, r, caught)
  \/ \E i \in Tasks : WriteChecked(i)
  \/ \E i \in Tasks : WriteCounter(i)
  \/ Interrupt
  \/ Join
  \/ SummaryStep
  \/ SaveStep
  \/ Acknowledge
  \/ AcknowledgeEarly

SpecRuns == Init /\ [][NextRuns]_vars

\* ------------------------------------------------------------- app.py
\* Invocations of app.py one after another.
MaxInvocations == 3

\* The directory `checkmate`: not there, a clone behind the remote, a clone
\* level with it.
Copies == {"absent", "old", "current"}

\* How a command app.py runs can end: well; `rm -rf` fails; `git clone`,
\* `git pull` or `pkg install` fails.
Results == {"ok", "rm", "fail"}

\* cloneRepo(): rm -rf of an existing directory, then git clone.
cloneRepo(l, result) ==
  [l EXCEPT !.actions = Append(@, "fetch"),
            !.copy = IF result = "ok" THEN "current"
                     ELSE IF result = "rm" THEN @ ELSE "absent"]

\* updateRepo(): git pull inside the directory.
updateRepo(l, result) ==
  [l EXCEPT !.actions = Append(@, "update"),
            !.copy = IF result = "ok" THEN "current" ELSE @]

runCheckerUnguarded(l) == [l EXCEPT !.actions = Append(@, "run")]

\* runChecker(): the child runs checker.py unless the directory is missing.
runChecker(l) ==
  IF l.copy = "absent" THEN l ELSE [l EXCEPT !.actions = Append(@, "run")]

\* main() up to the menu: checkGit, installGit when git does not answer.
LauncherStart(result) ==
  /\ launcher.pc = "start"
  /\ launcher' =
       IF launcher.git
       THEN [launcher EXCEPT !.pc = "menu", !.menus = @ + 1]
       ELSE IF result = "ok"
       THEN [launcher EXCEPT !.pc = "menu", !.menus = @ + 1, !.git = TRUE,
                             !.install = "done"]
       ELSE [launcher EXCEPT !.pc = "exit", !.install = "failed"]
  /\ UNCHANGED <<main, interrupts, doneAtInterrupt, attempted, savedFiles,
                 stamp, route, flow, loading, taskVars, configFile, sites,
                 config, checkStats>>

\* main() from the prompt on: one choice, its branch, and the return.  A
\* KeyboardInterrupt at the prompt ends the program from __main__.
LauncherChoose(choice, result) ==
  /\ launcher.pc = "menu"
  /\ result = "rm" => choice = "1" /\ launcher.copy # "absent"
  /\ launcher' =
       [(CASE choice = "1" -> cloneRepo(launcher, result)
           [] choice = "2" -> IF launcher.copy # "absent"
                              THEN updateRepo(launcher, result)
                              ELSE launcher
           [] choice = "3" -> runChecker(launcher)
           [] OTHER -> launcher)
        EXCEPT !.pc = "exit"]
  /\ UNCHANGED <<main, interrupts, doneAtInterrupt, attempted, savedFiles,
                 stamp, route, flow, loading, taskVars, configFile, sites,
                 config, checkStats>>

\* The operator starts app.py once more; the directory and git stay.
LauncherAgain ==
  /\ launcher.pc = "exit"
  /\ launcher.invocation < MaxInvocations
  /\ launcher' =
       [launcher EXCEPT !.pc = "start", !.actions = <<>>, !.menus = 0,
                        !.install = "", !.invocation = @ + 1]
  /\ UNCHANGED <<main, interrupts, doneAtInterrupt, attempted, savedFiles,
                 stamp, route, flow, loading, taskVars, configFile, sites,
                 config, checkStats>>

LauncherChoices == {"1", "2", "3", "4", "interrupt"}

InitLauncher ==
  /\ Fresh
  /\ configFile = NoFile
  /\ loading = NoLoading
  /\ launcher \in {[pc |-> "start", git |-> g, copy |-> c, actions |-> <<>>,
                     menus |-> 0, install |-> "", invocation |-> 1] :
                     g \in BOOLEAN, c \in Copies}

NextLauncher ==
  \/ \E result \in Results : LauncherStart(result)
  \/ \E choice \in LauncherChoices, result \in Results :
       LauncherChoose(choice, result)
  \/ LauncherAgain

SpecLauncher == InitLauncher /\ [][NextLauncher]_vars

\* loaddummys on its own: files of one line, put together from an account
\* number, a month, a year and a security code with separators between.
Digits(n) == [k \in 1..n |-> DigitChars[(k % 10) + 1]]

LineNumbers == {Digits(12), Digits(13), Digits(16), Digits(19), Digits(20)}

LineMonths == {<<"1">>, <<"1", "2">>, <<"1", "3">>, <<"0", "0">>}

LineYears == {<<"2", "5">>, <<"2", "0", "2", "5">>, <<"2", "0", "2">>}

LineCodes == {<<"1", "2">>, <<"1", "2", "3">>, <<"1", "2", "3", "4">>}

LineGaps == {<<"|">>, <<" ", "/", " ">>}

ExtractLines ==
  {n \o g \o m \o g \o y \o g \o c :
     n \in LineNumbers, m \in LineMonths, y \in LineYears, c \in LineCodes,
     g \in LineGaps}

InitExtract ==
  /\ Fresh
  /\ configFile = NoFile
  /\ launcher = NoLauncher
  /\ loading \in {[lines |-> <<l, <<" ">>>>, line |-> <<>>, dummys |-> <<>>] :
                    l \in ExtractLines}

\* One turn of the `for line in f` loop of loaddummys.
loaddummys ==
  /\ main = "menu"
  /\ loading.lines # <<>>
  /\ \E line \in {strip(Head(loading.lines))} :
       \E dummy \in {IF line = <<>> THEN <<>> ELSE extractdummy(line)} :
         loading' =
           [lines |-> Tail(loading.lines), line |-> line,
            dummys |-> IF dummy # <<>>
                       THEN Append(loading.dummys, dummy)
                       ELSE loading.dummys]
  /\ UNCHANGED <<main, interrupts, doneAtInterrupt, attempted, savedFiles,
                 stamp, route, flow, launcher, taskVars, configFile, sites,
                 config, checkStats>>

NextExtract == loaddummys

SpecExtract == InitExtract /\ [][NextExtract]_vars

\* The Sites menu on its own, with URLs of any text.
MaxUrl == 3

UrlChars == {"a", " ", "/", "?"}

MenuTexts ==
  UNION {[1..n -> UrlChars] : n \in 0..MaxUrl}
    \cup {<<"h", "t", "t", "p", "s", ":", "/", "/", "a", "/", "a", "?", "a">>,
          <<"h", "t", "t", "p", ":", "/", "/", " ", "a">>}

MenuFiles ==
  {<<<<"a">>, <<"a", " ", "/", "a">>>>, <<<<"a">>, <<" ">>, <<"a", "?">>>>,
   <<<<"a", "a">>>>}

MenuOrders ==
  UNION {[1..n -> {<<"a">>, <<"a", " ">>, <<"a", "a">>}] : n \in 0..MaxSites}

SitesMenuStep ==
  \E choice \in {"1", "6"} :
    \/ \E text \in MenuTexts :
         configureSites(choice, "1", [NoInput EXCEPT !.text = text], <<>>)
    \/ \E lines \in MenuFiles, found \in BOOLEAN, order \in MenuOrders :
         configureSites(choice, "2",
                        [NoInput EXCEPT !.found = found, !.lines = lines], order)
    \/ \E idx \in {<<>>} \cup {<<n>> : n \in (0 - MaxSites)..(MaxSites + 1)} :
         configureSites(choice, "3", [NoInput EXCEPT !.idx = idx], <<>>)
    \/ configureSites(choice, "4", NoInput, <<>>)

NextSites == SitesMenuStep

SpecSites == Init /\ [][NextSites]_vars

\* saveConfig and loadConfig on their own: any dict of the six settings is
\* saved, and the file is loaded back.
ProxyValues == {"proxy"}

BaseValues == {DefaultApiBase, "https://other"}

AllConfigs ==
  [api_key : {""} \cup KeyValues, api_base : BaseValues,
   bot_token : {""} \cup TokenValues, chat_id : {""} \cup ChatValues,
   proxy : {""} \cup ProxyValues, proxy_enabled : BOOLEAN]

InitConfig ==
  /\ main = "menu"
  /\ configFile \in InitialFiles
  /\ config \in AllConfigs
  /\ sites = [g \in Gateways |-> <<>>]
  /\ checkStats = ZeroStats
  /\ dummys = <<>>
  /\ pc = <<>>
  /\ response = <<>>
  /\ outcome = <<>>
  /\ tmp = <<>>
  /\ calls = <<>>
  /\ requests = <<>>
  /\ recorded = <<>>
  /\ notified = <<>>
  /\ delivered = <<>>
  /\ snap = <<>>
  /\ clean = <<>>
  /\ sent = <<>>
  /\ console = NoLine
  /\ interrupts = 0
  /\ doneAtInterrupt = {}
  /\ attempted = {}
  /\ savedFiles = {}
  /\ stamp = 0
  /\ route = NoRoute
  /\ flow = NoFlow
  /\ loading = NoLoading
  /\ launcher = NoLauncher

\* A menu flow changes its dict and calls saveConfig(config).
ConfigSave(c) ==
  /\ main \in {"menu", "loaded"}
  /\ config' = c
  /\ configFile' = saveConfig(c)
  /\ main' = "saved"
  /\ UNCHANGED <<taskVars, sites, checkStats, interrupts, doneAtInterrupt,
                 attempted, savedFiles, stamp, route, flow,
                 loading, launcher>>

\* The next flow starts with config = loadConfig().
ConfigLoad ==
  /\ main \in {"menu", "saved"}
  /\ config' = loadConfig(configFile)
  /\ main' = "loaded"
  /\ UNCHANGED <<taskVars, configFile, sites, checkStats, interrupts,
                 doneAtInterrupt, attempted, savedFiles, stamp, route, flow,
                 loading, launcher>>

NextConfig == (\E c \in AllConfigs : ConfigSave(c)) \/ ConfigLoad

SpecConfig == InitConfig /\ [][NextConfig]_vars

\* The runs by gateway and site mode, with one site file to pick from.
RouteStep ==
  \E gateway \in Gateways \cup {"other"}, mode \in {"1", "2", "other"},
     pick \in 1..MaxSites, filesInput \in {"", "cards.txt"},
     count \in 0..MaxRecords :
    startChecker(gateway, mode, pick, filesInput, count)

RouteResponses == {"DEAD"}

NextRoute ==
  \/ RouteStep
  \/ \E i \in Tasks : StartTask(i)
  \/ \E i \in Tasks, r \in RouteResponses : \E caught \in Handlers(r) :
       Respond(i, r, caught)
  \/ \E i \in Tasks : WriteChecked(i)
  \/ \E i \in Tasks : WriteCounter(i)
  \/ Join
  \/ SummaryStep
  \/ SaveStep
  \/ Acknowledge
  \/ SitesStep
  \/ ApiKeyStep

SpecRoute == Init /\ [][NextRoute]_vars

\* The Proxy menu next to the runs: the menu is entered any number of
\* times between runs, and a run's requests are answered DEAD or 401.
ProxyStep ==
  \E choice \in {"1", "2", "3", "4"}, proxy \in {""} \cup ProxyValues :
    configureProxy(choice, proxy)

ProxyResponses == {"DEAD", "401"}

NextProxy ==
  \/ ProxyStep
  \/ StartCheckerStep
  \/ \E i \in Tasks : StartTask(i)
  \/ \E i \in Tasks, r \in ProxyResponses : \E caught \in Handlers(r) :
       Respond(i, r, caught)
  \/ \E i \in Tasks : SaveDump(i)
  \/ \E i \in Tasks : WriteChecked(i)
  \/ \E i \in Tasks : WriteCounter(i)
  \/ Join
  \/ SummaryStep
  \/ SaveStep
  \/ Acknowledge

SpecProxy == Init /\ [][NextProxy]_vars

\* The runs without KeyboardInterrupt, every requests.get returning or
\* raising (a timeout among the ways).  A worker thread that can take a
\* step is scheduled, and the main thread goes on whenever it is not
\* waiting for input: weak fairness on each task's steps, on the end of the
\* as_completed loop and on the steps of showSummary.  Nothing makes the
\* operator start a run or press Enter.
LiveResponses == {"LIVE", "DEAD", "401", "Timeout"}

TaskStep(i) ==
  \/ StartTask(i)
  \/ \E r \in LiveResponses : \E caught \in Handlers(r) : Respond(i, r, caught)
  \/ SaveDump(i)
  \/ WriteChecked(i)
  \/ WriteCounter(i)

NextLive ==
  \/ StartCheckerStep
  \/ \E i \in Tasks : TaskStep(i)
  \/ Join
  \/ SummaryStep
  \/ SaveStep
  \/ Acknowledge

SpecLive ==
  /\ Init
  /\ [][NextLive]_vars
  /\ \A i \in 1..MaxRecords : WF_vars(i \in Tasks /\ TaskStep(i))
  /\ WF_vars(Join)
  /\ WF_vars(SummaryStep)
  /\ WF_vars(SaveStep)

\* checkdummy on its own: a pool of workers is handed records of any text,
\* as a caller other than startChecker may pass them.
ClientConfig ==
  [DefaultConfig EXCEPT !.api_key = "key", !.bot_token = "token",
                        !.chat_id = "chat"]

ClientResponses == {"LIVE", "401", "Timeout"}

InitClient ==
  /\ main = "dispatch"
  /\ configFile = FileOf(ClientConfig)
  /\ sites = [g \in Gateways |-> <<>>]
  /\ config = ClientConfig
  /\ dummys \in UNION {[1..n -> Strings(MaxLen)] : n \in 1..MaxRecords}
  /\ checkStats = [ZeroStats EXCEPT !.total = Len(dummys)]
  /\ pc = [i \in Tasks |-> "queued"]
  /\ response = [i \in Tasks |-> "-"]
  /\ outcome = [i \in Tasks |-> NoOutcome]
  /\ tmp = [i \in Tasks |-> 0]
  /\ calls = [i \in Tasks |-> 0]
  /\ requests = [i \in Tasks |-> 0]
  /\ recorded = [i \in Tasks |-> 0]
  /\ notified = [i \in Tasks |-> 0]
  /\ delivered = [i \in Tasks |-> 0]
  /\ snap = [i \in Tasks |-> ZeroStats]
  /\ clean = [i \in Tasks |-> FALSE]
  /\ interrupts = 0
  /\ doneAtInterrupt = {}
  /\ attempted = {}
  /\ savedFiles = {}
  /\ stamp = 0
  /\ route = [gateway |-> "ppcp", mode |-> "1", site |-> builtinKey("ppcp"),
              label |-> builtinKey("ppcp")]
  /\ sent = [i \in Tasks |-> NoRequest]
  /\ console = NoLine
  /\ flow = NoFlow
  /\ loading = NoLoading
  /\ launcher = NoLauncher

NextClient ==
  \/ \E i \in Tasks : StartTask(i)
  \/ \E i \in Tasks, r \in ClientResponses : \E caught \in Handlers(r) :
       Respond(i, r, caught)
  \/ \E i \in Tasks : SaveDump(i)
  \/ \E i \in Tasks : WriteChecked(i)
  \/ \E i \in Tasks : WriteCounter(i)

SpecClient == InitClient /\ [][NextClient]_vars

\* ------------------------------------------------------------ properties
Counters(stats) ==
  stats.approved + stats.ccn + stats.live + stats.charged + stats.dead
    + stats.invalid

Got401(i) == response[i] = "401"

\* Task i has stored into checkStats.
Contributed(i) == recorded[i] > 0 /\ pc[i] \in {"wcnt", "done"}

Completed == Summarising /\ AllDone

\* What one uninterfered logResult makes of the aggregate it found, for a
\* status counted in `counter` and listed in `list` ("none": not listed).
Expected(stats, counter, list, line) ==
  IF list # "none"
  THEN [stats EXCEPT !.checked = @ + 1, ![counter] = @ + 1,
                     ![list] = Append(@, line)]
  ELSE [stats EXCEPT !.checked = @ + 1, ![counter] = @ + 1]

\* Task i takes the step that ends its logResult.
Returns(i) == pc[i] \in {"wchk", "wcnt"} /\ pc'[i] = "done"

\* C1: when a run in which no call returned 401 completes, checked equals
\* approved + ccn + live + charged + dead + invalid, and checked <= total.
C1_RunTotal ==
  (Completed /\ \A i \in Tasks : ~Got401(i)) =>
    /\ checkStats.checked = Counters(checkStats)
    /\ checkStats.checked <= checkStats.total

\* C2: the step in which a call receives 401 clears api_key in the run's
\* configuration and nothing else, the file written for it holds exactly
\* that configuration, and from the response to its return the call leaves
\* checkStats as it is and records no outcome.
C2_Unauthorized ==
  /\ [][\A i \in Tasks : dummys' = dummys =>
          /\ (response[i] = "-" /\ response'[i] = "401") =>
               /\ config' = [config EXCEPT !.api_key = ""]
               /\ pc'[i] = "save"
               /\ checkStats' = checkStats
          /\ (Got401(i) /\ pc'[i] # pc[i]) =>
               /\ pc'[i] = "done"
               /\ configFile' = FileOf([config EXCEPT !.api_key = ""])
               /\ config' = config
               /\ checkStats' = checkStats]_vars
  /\ [](\A i \in Tasks : Got401(i) => recorded[i] = 0 /\ outcome[i] = NoOutcome)
  /\ [](\A i \in Tasks :
          (Got401(i) /\ \A j \in Tasks : pc[j] # "save") =>
             /\ configFile = FileOf(config)
             /\ config.api_key = "")

C2_Witness ==
  \E i \in Tasks :
    /\ Got401(i)
    /\ pc[i] = "done"
    /\ configFile = FileOf([DefaultConfig EXCEPT !.bot_token = "token"])
    /\ \E j \in Tasks : Contributed(j)

\* C3: after an interrupt during dispatch, the summary shows no outcome of
\* a record that had not completed when the interrupt arrived.
C3_InterruptAbandons ==
  (main = "summary" /\ interrupts >= 1) =>
    \A i \in Tasks \ doneAtInterrupt : ~Contributed(i)

\* The steps of task i's logResult, for a status counted in `counter` and
\* listed in `list`.
PositiveEffect(i, counter, list) ==
  /\ \A f \in DOMAIN checkStats \ {"checked", counter, list} :
       checkStats'[f] = checkStats[f]
  /\ pc[i] = "wchk" =>
       /\ checkStats'[list] = checkStats[list]
       /\ checkStats'[counter] = checkStats[counter]
       /\ notified'[i] = 0
  /\ Returns(i) =>
       /\ checkStats'[list] = Append(checkStats[list], logLineClean(i))
       /\ checkStats'.checked = checkStats.checked
       /\ notified'[i] =
            IF config.bot_token # "" /\ config.chat_id # "" THEN 1 ELSE 0
       /\ clean[i] =>
            checkStats' = Expected(snap[i], counter, list, logLineClean(i))

\* C4: a logResult call with a status s among APPROVED, CCN MATCHED, LIVE,
\* CHARGED stores only into checked, the counter of s and the list of s;
\* it appends one line to the list of s and posts one notification when
\* bot token and chat id are set (none otherwise); and when no other task
\* stores into checkStats during the call, checked and the counter of s end
\* one above what the call found and everything else is as it found it.
C4_PositiveOutcome ==
  [][\A i \in Tasks :
       (dummys' = dummys /\ pc[i] \in {"wchk", "wcnt"} /\ pc'[i] # pc[i]) =>
         LET s == outcome[i][1] IN
         /\ s = "APPROVED" => PositiveEffect(i, "approved", "approveddummys")
         /\ s = "CCN MATCHED" => PositiveEffect(i, "ccn", "ccndummys")
         /\ s = "LIVE" => PositiveEffect(i, "live", "livedummys")
         /\ s = "CHARGED" => PositiveEffect(i, "charged", "chargeddummys")]_vars

C4_Witness ==
  \E i, j \in Tasks :
    /\ i # j
    /\ pc[i] = "done"
    /\ outcome[i][1] = "CCN MATCHED"
    /\ clean[i]
    /\ notified[i] = 1
    /\ checkStats.ccn = 1
    /\ Len(checkStats.ccndummys) = 1
    /\ pc[j] = "wchk"

\* The steps of task i's logResult for status ERROR.
ErrorEffect(i) ==
  /\ \A f \in DOMAIN checkStats \ {"checked", "invalid"} :
       checkStats'[f] = checkStats[f]
  /\ notified'[i] = 0
  /\ pc[i] = "wchk" => pc'[i] = "wcnt" /\ checkStats'.invalid = checkStats.invalid
  /\ pc[i] = "wcnt" => Returns(i) /\ checkStats'.checked = checkStats.checked
  /\ (Returns(i) /\ clean[i]) =>
       checkStats' = Expected(snap[i], "invalid", "none", <<>>)

\* A record checkdummy rejects: empty after trimming, or without '|'.
Rejected(record) ==
  \/ \A k \in 1..Len(record) : record[k] = " "
  \/ \A k \in 1..Len(record) : record[k] # "|"

\* C5: for a record that is empty after trimming or holds no '|',
\* checkdummy issues no request and calls logResult once, with ERROR and
\* INVALID; that call stores only into checked and invalid, and when no
\* other task stores into checkStats during it, both end one above what it
\* found.
C5_InvalidRecord ==
  /\ [](\A i \in Tasks :
          Rejected(dummys[i]) =>
            /\ requests[i] = 0
            /\ response[i] = "-"
            /\ notified[i] = 0
            /\ recorded[i] = calls[i]
            /\ calls[i] = 1 => outcome[i] = <<"ERROR", "INVALID">>)
  /\ [][\A i \in Tasks :
          (Rejected(dummys[i]) /\ pc'[i] # pc[i] /\ pc[i] # "queued") =>
             ErrorEffect(i)]_vars

C5_Witness ==
  \E i, j \in Tasks :
    /\ dummys[i] = <<"4", " ">>
    /\ pc[i] = "done"
    /\ clean[i]
    /\ checkStats.invalid = 1
    /\ dummys[j] = <<"|", " ">>
    /\ requests[j] = 1

\* C6: a record whose call fails by timeout, by connection failure, or by
\* a malformed or unexpected response has exactly one ERROR outcome, with
\* code TIMEOUT, CONNECTION, EXCEPTION respectively, and an uninterrupted
\* run in which such failures occur still checks every record.
C6_TransportErrors ==
  /\ \A i \in Tasks :
       response[i] \in Failures =>
         /\ recorded[i] = 1
         /\ outcome[i][1] = "ERROR"
         /\ response[i] = "Timeout" => outcome[i][2] = "TIMEOUT"
         /\ response[i] = "ConnectionError" => outcome[i][2] = "CONNECTION"
         /\ response[i] \in {"Malformed", "Unexpected"} =>
              outcome[i][2] = "EXCEPTION"
  /\ (Summarising /\ interrupts = 0) =>
       \A i \in Tasks : calls[i] = 1 /\ pc[i] = "done"

\* C7: checkdummy is invoked at most once per record, issues at most one
\* request and records at most one outcome, whatever the response; once an
\* uninterrupted run reaches its summary, it has been invoked exactly once
\* for each of the total records.
C7_OncePerRecord ==
  /\ \A i \in Tasks :
       /\ calls[i] <= 1
       /\ requests[i] <= 1
       /\ recorded[i] <= 1
       /\ requests[i] <= calls[i]
       /\ recorded[i] <= calls[i]
  /\ Dispatching \/ Summarising => Len(dummys) = checkStats.total
  /\ (Summarising /\ interrupts = 0) => \A i \in Tasks : calls[i] = 1

C7_Witness ==
  /\ main = "ack"
  /\ interrupts = 0
  /\ Len(dummys) = MaxRecords
  /\ \E i, j \in Tasks :
       /\ response[i] = "Timeout" /\ recorded[i] = 1 /\ requests[i] = 1
       /\ response[j] = "401" /\ recorded[j] = 0 /\ requests[j] = 1

\* C8: at most DEFAULT_THREADS checks are in flight at any moment, and no
\* worker task is running before dispatch starts or once the summary step
\* has begun.
C8_BoundedWorkers ==
  /\ Cardinality(Running) <= DEFAULT_THREADS
  /\ ~Dispatching => Running = {}

FileOfCategory(c) == \E f \in savedFiles : f.status = c

C11_GatewayRouting ==
  \A i \in Tasks :
    /\ requests[i] = 0 => sent[i] = NoRequest
    /\ requests[i] >= 1 =>
         /\ route.gateway \in {"stripe", "stripe_charge", "ppcp", "b3", "b3charge"}
         /\ sent[i].url = <<config.api_base, route.gateway>>
         /\ route.mode \in {"1", "2"}
         /\ route.mode = "1" =>
              /\ route.gateway \in {"stripe", "stripe_charge"} =>
                   sent[i].site = <<"SIN-", "STRIPE">>
              /\ route.gateway = "ppcp" => sent[i].site = <<"SIN-", "PPCP">>
              /\ route.gateway \in {"b3", "b3charge"} =>
                   sent[i].site = <<"SIN-", "B3">>
         /\ route.mode = "2" =>
              \E k \in 1..Len(sites[route.gateway]) :
                sent[i].site = sites[route.gateway][k]

C11_Witness ==
  /\ Len(dummys) = MaxRecords
  /\ route.gateway = "b3charge"
  /\ \A i \in Tasks :
       /\ pc[i] = "done"
       /\ sent[i] = [url |-> <<DefaultApiBase, "b3charge">>,
                     site |-> <<"SIN-", "B3">>, proxy |-> <<>>]

NoDuplicates(list) ==
  \A j, k \in 1..Len(list) : list[j] = list[k] => j = k

\* C13: after a bulk import into a gateway's list, the list loadSites
\* returns for that gateway holds no domain twice, and holds every entry of
\* the previous list and the domain of every non-blank line of the file.
C13_ImportDedup ==
  [][flow'.text = "ADDED SITES" =>
       LET stored == loadSites(sites'[flow'.gateway])
           previous == loadSites(sites[flow'.gateway])
           lines == loadSites(flow'.lines)
       IN
       /\ NoDuplicates(stored)
       /\ \A k \in 1..Len(previous) : previous[k] \in Range(stored)
       /\ \A k \in 1..Len(lines) :
            strip(extractDomain(lines[k])) # <<>> =>
              strip(extractDomain(lines[k])) \in Range(stored)]_vars

\* C14: for every URL u typed into the Sites menu,
\* extractDomain(extractDomain(u)) = extractDomain(u).
C14_DomainIdempotent ==
  flow.text = "SITE ADDED" =>
    extractDomain(extractDomain(flow.url)) = extractDomain(flow.url)

\* C16: a remove request whose index is not a number or lies outside 1..n,
\* for a stored list of n >= 1 sites, shows INVALID INDEX and leaves the
\* site file as it was.
C16_RemoveOutOfRange ==
  [][(flow'.action = "3" /\ (flow' # flow \/ sites' # sites)) =>
       LET n == Len(loadSites(sites[flow'.gateway])) IN
       (n >= 1 /\ (flow'.idx = <<>> \/ flow'.idx[1] \notin 1..n)) =>
         /\ flow'.text = "INVALID INDEX"
         /\ sites' = sites]_vars

\* The fields of a record: what stands between its "|" separators.
RECURSIVE Fields(_)
Fields(s) ==
  IF \A k \in 1..Len(s) : s[k] # "|" THEN <<s>>
  ELSE LET k == CHOOSE k \in 1..Len(s) :
                  s[k] = "|" /\ \A j \in 1..(k - 1) : s[j] # "|"
       IN <<SubSeq(s, 1, k - 1)>> \o Fields(SubSeq(s, k + 1, Len(s)))

AllDigits(s) == \A k \in 1..Len(s) : IsDigit(s[k])

\* NUMBER|MM|YY|CVC: 13 to 19 digits, a month 01 to 12, exactly two digits
\* of year, three or four digits of code.
WellFormed(record) ==
  LET f == Fields(record) IN
  /\ Len(f) = 4
  /\ \A k \in 1..4 : AllDigits(f[k])
  /\ Len(f[1]) >= 13 /\ Len(f[1]) <= 19
  /\ Len(f[2]) = 2 /\ IntOf(f[2]) >= 1 /\ IntOf(f[2]) <= 12
  /\ Len(f[3]) = 2
  /\ Len(f[4]) >= 3 /\ Len(f[4]) <= 4

\* C15: every record extractRecord returns has the form NUMBER|MM|YY|CVC
\* with a 13-19 digit number, a month 01-12 padded to two digits, a year of
\* exactly two digits (the last two of a four-digit year) and a code of 3-4
\* digits; a line whose month is outside 1..12 yields no record.
C15_RecordFormat ==
  /\ \A k \in 1..Len(loading.dummys) : WellFormed(loading.dummys[k])
  /\ (loading.line # <<>> /\ Search(loading.line) # <<>>
       /\ IntOf(Search(loading.line)[2]) \notin 1..12)
     => loading.dummys = <<>>

\* C17: in every invocation of app.py at most one of fetch, update, run is
\* performed and the menu is shown at most once, nothing following the
\* action but the end of the program; when git is absent and installGit
\* fails nothing is performed and no menu shown; update and run are
\* performed only when the directory `checkmate` exists.
C17_OneAction ==
  /\ [](/\ Len(launcher.actions) <= 1
        /\ launcher.menus <= 1
        /\ (launcher.actions # <<>> => launcher.pc = "exit")
        /\ (launcher.install = "failed" =>
              (launcher.actions = <<>> /\ launcher.menus = 0)))
  /\ [][/\ ((/\ launcher'.actions # <<>>
              /\ launcher'.actions # launcher.actions
              /\ launcher'.actions[Len(launcher'.actions)] \in {"update", "run"})
             => launcher.copy # "absent")
         /\ (launcher.pc = "exit" =>
               (/\ launcher'.invocation = launcher.invocation + 1
                /\ launcher'.actions = <<>>
                /\ launcher'.menus = 0))]_vars

C17_Witness ==
  /\ launcher.pc = "exit"
  /\ launcher.install = "done"
  /\ launcher.actions = <<"run">>
  /\ launcher.menus = 1

StartAborts ==
  {"NO API KEY SET", "INVALID GATEWAY", "INVALID SITE SELECTION",
   "NO FILES ENTERED", "NO dummyS LOADED"}

\* C18: startChecker begins a run, and so requests are issued, only with an
\* API key in the stored configuration, a gateway of the menu, site mode 1
\* or site mode 2 with at least one stored site, and at least one record
\* (which takes a file input); when it gives up it is back at the menu with
\* no request issued and the configuration file and the site files as they
\* were.
C18_StartGuards ==
  /\ [](/\ (dummys # <<>> =>
              (/\ route.gateway \in Gateways
               /\ route.mode \in {"1", "2"}
               /\ route.site # <<>>))
        /\ (main = "menu" => \A i \in Tasks : requests[i] = 0))
  /\ [][/\ ((main = "menu" /\ main' = "dispatch") =>
              (/\ loadConfig(configFile).api_key # ""
               /\ route'.gateway \in Gateways
               /\ route'.mode \in {"1", "2"}
               /\ (route'.mode = "2" => StoredSites(route'.gateway) # <<>>)
               /\ Len(dummys') >= 1
               /\ configFile' = configFile
               /\ sites' = sites))
         /\ ((flow'.action = "START" /\ flow'.text \in StartAborts
              /\ flow' # flow) =>
              (/\ main' = "menu"
               /\ dummys' = <<>>
               /\ requests' = requests
               /\ configFile' = configFile
               /\ sites' = sites))
         /\ ((\E i \in Tasks : i \in DOMAIN requests'
                                /\ requests'[i] > requests[i]) =>
              (main # "menu" /\ dummys # <<>>))]_vars

C18_Witness ==
  /\ main = "dispatch"
  /\ route.mode = "2"
  /\ \E i \in Tasks : requests[i] = 1 /\ sent[i].site = route.site

\* C19: when a run that was not interrupted and met no 401 is complete,
\* checked equals total and each of the four result lists has as many
\* lines as its counter counts, whatever the interleaving of the workers.
C19_NoLostUpdate ==
  (Completed /\ interrupts = 0 /\ \A i \in Tasks : ~Got401(i)) =>
    /\ checkStats.checked = checkStats.total
    /\ \A c \in Categories :
         Len(checkStats[CategoryList(c)]) = checkStats[c]

\* C20: when a call of logResult redraws the progress line, the line last
\* written before it is that call's own log line (no log line or progress
\* line of another worker came between), and the counters it shows count
\* the call's outcome.
C20_LogAndProgress ==
  [][\A i \in Tasks :
       (/\ console'.kind = "progress"
        /\ console'.task = i
        /\ pc[i] \in {"wchk", "wcnt"}
        /\ pc'[i] = "done") =>
         (/\ console = [task |-> i, kind |-> "log"]
          /\ checkStats'.checked >= 1
          /\ (CounterOf(outcome[i][1]) # "none" =>
                checkStats'[CounterOf(outcome[i][1])] >= 1))]_vars

\* C21: a logResult call with a status that is none of APPROVED, CCN
\* MATCHED, LIVE, CHARGED, DEAD, ERROR takes one step, which stores into
\* checked and into nothing else of checkStats and posts no notification;
\* when no other task stores into checkStats during the call, checked ends
\* one above what the call found.
C21_OtherStatus ==
  [][\A i \in Tasks :
       (/\ dummys' = dummys
        /\ pc[i] \in {"wchk", "wcnt"}
        /\ pc'[i] # pc[i]
        /\ outcome[i][1] \notin CountedStatuses) =>
         (/\ pc[i] = "wchk"
          /\ pc'[i] = "done"
          /\ \A f \in DOMAIN checkStats \ {"checked"} :
               checkStats'[f] = checkStats[f]
          /\ checkStats'.checked = tmp[i] + 1
          /\ notified'[i] = 0
          /\ (clean[i] =>
                checkStats' = [snap[i] EXCEPT !.checked = @ + 1]))]_vars

C21_Witness ==
  \E i \in Tasks :
    /\ pc[i] = "done"
    /\ outcome[i] = <<"DECLINED", "REMOTE">>
    /\ config.bot_token # "" /\ config.chat_id # ""
    /\ notified[i] = 0
    /\ checkStats.checked = 1
    /\ Counters(checkStats) = 0

\* C22: whatever runs came before, when the dispatch of a run starts
\* checked and the six outcome counters are zero, the four result lists
\* are empty and total is the number of records submitted.
C22_FreshAggregate ==
  [][(main # "dispatch" /\ main' = "dispatch") =>
       checkStats' = [ZeroStats EXCEPT !.total = Len(dummys')]]_vars

\* C23: when configureApiKey is entered with a key set and the check
\* reports the key invalid or expired, the file written holds an empty
\* api_key and every other field as it was; when the check fails, nothing
\* is written for it; either way the menu follows, so that without a
\* further change by the operator (choice BACK) this is the file left.
C23_KeyCheck ==
  [][(flow'.action = "KEY" /\ flow' # flow) =>
       LET old == loadConfig(configFile)
           new == loadConfig(configFile')
       IN /\ flow'.text \in {"KEY EXPIRED", "KEY INVALID"} =>
               /\ old.api_key # ""
               /\ \A f \in DOMAIN old \ {"api_key"} : new[f] = old[f]
               /\ flow'.idx # <<1>> =>
                    configFile' = FileOf([old EXCEPT !.api_key = ""])
          /\ flow'.text = "CANNOT CHECK KEY" =>
               /\ old.api_key # ""
               /\ \A f \in DOMAIN old \ {"api_key"} : new[f] = old[f]
               /\ flow'.idx = <<3>> => configFile' = configFile]_vars

C23_Witness ==
  /\ flow.action = "KEY"
  /\ flow.text = "KEY EXPIRED"
  /\ flow.idx = <<3>>
  /\ configFile = FileOf([DefaultConfig EXCEPT !.bot_token = "token"])

\* C24: from a settings file without a proxy, after any sequence of Proxy
\* menu operations the persisted configuration has proxy_enabled true only
\* with a non-empty proxy URL; a toggle (choice 2) with no proxy set leaves
\* the settings file as it was; and during a run every request that was
\* sent carries the proxy parameter, with the persisted URL, exactly when
\* the persisted proxy is set and enabled (the run's own dict standing in
\* for the file while a 401 handler is rewriting it).
C24_ProxyMenu ==
  /\ [](/\ loadConfig(configFile).proxy_enabled =>
              loadConfig(configFile).proxy # ""
        /\ main # "menu" =>
              \A i \in Tasks :
                requests[i] >= 1 =>
                  LET c == IF configFile.valid THEN loadConfig(configFile)
                           ELSE config
                  IN sent[i].proxy =
                       IF c.proxy # "" /\ c.proxy_enabled
                       THEN <<c.proxy>> ELSE <<>>)
  /\ [][(main = "menu" /\ main' = "menu" /\ flow'.action = "PROXY"
           /\ flow'.idx = <<2>> /\ loadConfig(configFile).proxy = "")
          => configFile' = configFile /\ flow'.text = "NO PROXY SET"]_vars

C24_Witness ==
  /\ main = "dispatch"
  /\ loadConfig(configFile).proxy_enabled
  /\ \E i \in Tasks : requests[i] = 1 /\ sent[i].proxy = <<"proxy">>
  /\ \E i \in Tasks : requests[i] = 0
\* C25: a task whose logResult has returned has posted one notification
\* when bot token and chat id are both set and its status is APPROVED,
\* CCN MATCHED, LIVE or CHARGED, and none otherwise, and no more messages
\* arrive than were posted; when the post raises, the step that made it
\* still stores the status counter as loaded plus one, appends the one
\* line to the status list, leaves every other field of checkStats alone
\* (so that, no other task storing meanwhile, checked and the counter end
\* one above what the call found), calls logResult no second time, and
\* the task returns while main and the other tasks stay where they are.
C25_Notification ==
  /\ [](\A i \in Tasks :
          /\ delivered[i] <= notified[i]
          /\ notified[i] <= IF Notifies(config, outcome[i][1]) THEN 1 ELSE 0
          /\ (pc[i] = "done" /\ recorded[i] >= 1
                /\ CounterOf(outcome[i][1]) # "none") =>
               notified[i] = IF config.bot_token # "" /\ config.chat_id # ""
                                  /\ outcome[i][1] \in
                                       {"APPROVED", "CCN MATCHED", "LIVE",
                                        "CHARGED"}
                              THEN 1 ELSE 0)
  /\ [][\A i \in Tasks :
         (dummys' = dummys /\ pc[i] = "wcnt" /\ pc'[i] # pc[i]
            /\ notified'[i] = notified[i] + 1
            /\ delivered'[i] = delivered[i]) =>
           LET s == outcome[i][1] IN
           /\ pc'[i] = "done"
           /\ recorded'[i] = recorded[i]
           /\ calls'[i] = calls[i]
           /\ outcome'[i] = outcome[i]
           /\ checkStats'[CounterOf(s)] = tmp[i] + 1
           /\ checkStats'[ListOf(s)] =
                Append(checkStats[ListOf(s)], logLineClean(i))
           /\ \A f \in DOMAIN checkStats \ {CounterOf(s), ListOf(s)} :
                checkStats'[f] = checkStats[f]
           /\ clean[i] =>
                checkStats' =
                  Expected(snap[i], CounterOf(s), ListOf(s), logLineClean(i))
           /\ main' = main
           /\ \A j \in Tasks \ {i} : pc'[j] = pc[j]]_vars

C25_Witness ==
  \E i, j \in Tasks :
    /\ pc[i] = "done"
    /\ outcome[i][1] = "LIVE"
    /\ notified[i] = 1
    /\ delivered[i] = 0
    /\ clean[i]
    /\ checkStats.live = 1
    /\ checkStats.checked = 1
    /\ pc[j] = "queued"
    /\ main = "dispatch"
\* C26: with every remote call returning or timing out and no interrupt, a
\* run that has been dispatched eventually reaches the summary, and at the
\* summary every submitted record has been through checkdummy once and has
\* returned; the summary goes on to the acknowledgement prompt, where the
\* keypress is all that is waited for, and the step that leaves the prompt
\* arrives at the top-level menu.
C26_RunTerminates ==
  /\ (main = "dispatch" /\ Len(dummys) > 0) ~> main = "summary"
  /\ [](main = "summary" =>
          /\ Len(dummys) = checkStats.total
          /\ \A i \in Tasks : pc[i] = "done" /\ calls[i] = 1)
  /\ main = "summary" ~> main = "ack"
  /\ [](main = "ack" => ENABLED Acknowledge)
  /\ [][main = "ack" /\ main' # "ack" => main' = "menu"]_vars

C26_Witness ==
  /\ main = "summary"
  /\ Len(dummys) = MaxRecords
  /\ \E i, j \in Tasks : response[i] = "Timeout" /\ response[j] = "401"
  /\ \A i \in Tasks : pc[i] = "done"
====
